---------------------------- MODULE Spec2Model ----------------------------
(***************************************************************************)
(* The user-defined expression functions of                               *)
(*   src/cicd/graph_script/ExprFunctions.hpp  (str_to_int, get_minutes,   *)
(*                                             is_contains)               *)
(*   src/tests/fixtures/ExprFunctions.hpp     (add_3)                     *)
(* A std::string is a sequence of one-character strings.  A call is a     *)
(* small state machine: the arguments are drawn by Init, "entry" is the   *)
(* position before the first statement and "done" the position after the  *)
(* return.                                                                *)
(***************************************************************************)
EXTENDS Integers, Sequences, FiniteSets, TLC

VARIABLES
  fn,      \* the function being called
  pc,      \* position in it: "entry", "loop", "done", "thrown"
  str,     \* first string argument (str / str1)
  str2,    \* second string argument of is_contains
  num,     \* int argument of add_3
  total,   \* get_minutes: int total
  prev,    \* get_minutes: std::size_t prev
  cur,     \* get_minutes: std::size_t cur
  result,  \* the returned value, once pc = "done"
  ub,      \* an operation with undefined behaviour was executed
  iters,   \* get_minutes: loop bodies executed so far
  finds    \* get_minutes: calls of str.find(delim, ..) so far

vars == <<fn, pc, str, str2, num, total, prev, cur, result, ub, iters, finds>>

---------------------------------------------------------------------------
(* Bounds of the model. *)

\* get_minutes inputs are made of at most MaxSegs segments (component, separator)
MaxSegs == 2
\* the two parts of a concatenated get_minutes input have at most MaxPartSegs each
MaxPartSegs == 1
\* is_contains arguments have at most MaxContainsLen characters
MaxContainsLen == 3
\* str_to_int arguments have at most MaxAtoiLen characters (and a few long ones)
MaxAtoiLen == 4
\* add_3 arguments lie within Add3Span of INT_MIN, of 0 and of INT_MAX
Add3Span == 20
\* the duration strings get_minutes is compared on have at most MaxWfComps components
MaxWfComps == 2

---------------------------------------------------------------------------
(* int: 32-bit two's complement.  TLC's own integers are 32 bits wide too, *)
(* so every operation below decides whether the mathematical result fits   *)
(* before it computes anything.                                            *)

IntMax == 2147483647
IntMin == -IntMax - 1

\* a + b is representable
AddFits(a, b) == IF b >= 0 THEN a <= IntMax - b ELSE a >= IntMin - b

\* (a + b) reduced modulo 2^32 into IntMin..IntMax
AddWrap(a, b) ==
  IF AddFits(a, b) THEN a + b
  ELSE IF b >= 0 THEN (a - (IntMax - b) - 1) + IntMin
       ELSE (a - (IntMin - b) + 1) + IntMax

\* a * k is representable (k > 0)
MulFits(a, k) ==
  /\ a <= IntMax \div k
  /\ a >= -(IntMax \div k) - (IF IntMax % k = k - 1 THEN 1 ELSE 0)

\* (a * k) reduced modulo 2^32 into IntMin..IntMax (0 < k < 2^15), computed
\* on the 16-bit halves of a: a = ah * 2^16 + al
MulWrap(a, k) ==
  LET al == a % 65536
      ah == a \div 65536
      h  == (ah * k) % 65536
      hs == IF h >= 32768 THEN h - 65536 ELSE h
  IN  AddWrap(hs * 65536, al * k)

\* Signed overflow is undefined behaviour: the value that results is any int;
\* the wrapped value and the two ends of the range stand for "any".
OverflowOutcomes(w) == {w, IntMin, IntMax}

\* The outcomes of the int expression a + b: [val, ub]
AddOutcomes(a, b) ==
  IF AddFits(a, b) THEN {[val |-> a + b, ub |-> FALSE]}
  ELSE {[val |-> v, ub |-> TRUE] : v \in OverflowOutcomes(AddWrap(a, b))}

\* The outcomes of the int expression a * k
MulOutcomes(a, k) ==
  IF MulFits(a, k) THEN {[val |-> a * k, ub |-> FALSE]}
  ELSE {[val |-> v, ub |-> TRUE] : v \in OverflowOutcomes(MulWrap(a, k))}

\* The outcomes S, after an earlier operation whose ub flag was b
Taint(S, b) == {[val |-> o.val, ub |-> o.ub \/ b] : o \in S}

---------------------------------------------------------------------------
(* std::size_t: 64-bit unsigned.  A value is represented by its residue of *)
(* least absolute value modulo 2^64, so that npos = 2^64 - 1 is -1 and     *)
(* + and - are the integers' + and -; the unsigned order puts the negative *)
(* representatives (the values just below 2^64) above the others.          *)

NPOS == -1

SizeLT(a, b) == IF (a >= 0) = (b >= 0) THEN a < b ELSE b < 0
SizeLE(a, b) == a = b \/ SizeLT(a, b)

---------------------------------------------------------------------------
(* std::string operations *)

RECURSIVE FindFrom(_, _, _)
\* first i >= pos with s[i .. i+|t|) = t, or npos
FindFrom(s, t, i) ==
  IF i + Len(t) > Len(s) THEN NPOS
  ELSE IF SubSeq(s, i + 1, i + Len(t)) = t THEN i
  ELSE FindFrom(s, t, i + 1)

RECURSIVE FindFromShort(_, _, _)
\* (mutant: the scan stops one position early and misses a match at the end)
FindFromShort(s, t, i) ==
  IF i + Len(t) >= Len(s) THEN NPOS
  ELSE IF SubSeq(s, i + 1, i + Len(t)) = t THEN i
  ELSE FindFromShort(s, t, i + 1)

FindShort(s, t, pos) == IF SizeLT(Len(s), pos) THEN NPOS ELSE FindFromShort(s, t, pos)

\* s.find(t, pos)
Find(s, t, pos) == IF SizeLT(Len(s), pos) THEN NPOS ELSE FindFrom(s, t, pos)

\* s.substr(pos, n) throws std::out_of_range
SubstrThrows(s, pos) == SizeLT(Len(s), pos)

\* s.substr(pos, n), for pos <= s.size()
Substr(s, pos, n) ==
  LET rlen == IF SizeLT(n, Len(s) - pos) THEN n ELSE Len(s) - pos
  IN  SubSeq(s, pos + 1, pos + rlen)

---------------------------------------------------------------------------
(* atoi(str.c_str()) *)

\* the terminator c_str() appends; a std::string may also hold it inside
NUL == "NUL"

RECURSIVE CStrLen(_, _)
\* strlen(s.c_str() + i) + i: the index of the last character before the first NUL
CStrLen(s, i) ==
  IF i >= Len(s) \/ s[i + 1] = NUL THEN i ELSE CStrLen(s, i + 1)

\* what a reader of s.c_str() sees
CStr(s) == SubSeq(s, 1, CStrLen(s, 0))

\* isspace in the "C" locale (\v has no TLA+ escape; the inputs do not use it)
IsSpace(c) == c \in {" ", "\t", "\n", "\r", "\f"}

Digits == <<"0", "1", "2", "3", "4", "5", "6", "7", "8", "9">>
IsDigit(c) == \E d \in 1..10 : Digits[d] = c
DigitVal(c) == (CHOOSE d \in 1..10 : Digits[d] = c) - 1

RECURSIVE SkipSpace(_, _)
\* 1-based index of the first character at or after i that is not white space
SkipSpace(s, i) ==
  IF i <= Len(s) /\ IsSpace(s[i]) THEN SkipSpace(s, i + 1) ELSE i

\* acc * 10 + d (neg: acc * 10 - d) is representable
DigitFits(acc, d, neg) ==
  IF neg
  THEN /\ acc # IntMin
       /\ -acc <= (IntMax - (IF d = 0 THEN 0 ELSE d - 1)) \div 10
  ELSE acc <= (IntMax - d) \div 10

RECURSIVE AtoiDigits(_, _, _, _)
\* the digit run from index i on, accumulated in the sign's direction;
\* ub: the value cannot be represented in an int
AtoiDigits(s, i, neg, acc) ==
  IF i > Len(s) \/ ~IsDigit(s[i]) THEN [val |-> acc, ub |-> FALSE]
  ELSE CHOOSE r \in
         { IF ~DigitFits(a, d, neg) THEN [val |-> 0, ub |-> TRUE]
           ELSE AtoiDigits(s, j + 1, neg, IF neg THEN a * 10 - d ELSE a * 10 + d)
           : j \in {i}, a \in {acc}, d \in {DigitVal(s[i])} } : TRUE

\* (mutant: the sign is not read)
AtoiCNoSign(c) == AtoiDigits(c, SkipSpace(c, 1), FALSE, 0)

\* atoi(c): white space, an optional sign, decimal digits
AtoiC(c) ==
  LET i    == SkipSpace(c, 1)
      sign == i <= Len(c) /\ c[i] \in {"+", "-"}
      neg  == sign /\ c[i] = "-"
  IN  AtoiDigits(c, IF sign THEN i + 1 ELSE i, neg, 0)

\* atoi(s.c_str()); c_str() is taken once
Atoi(s) == CHOOSE r \in { AtoiC(c) : c \in {CStr(s)} } : TRUE

\* atoi of a value no int represents is undefined behaviour: any int results
AtoiOverflowOutcomes == {IntMin, -1, 0, IntMax}

\* the outcomes of str_to_int(s): [val, ub]
StrToIntOutcomes(s) ==
  LET r == Atoi(s)
  IN  IF r.ub THEN {[val |-> v, ub |-> TRUE] : v \in AtoiOverflowOutcomes}
      ELSE {r}

---------------------------------------------------------------------------
(* get_minutes *)

delim == <<",", " ">>
days == <<"d", "a", "y", "s">>
hours == <<"h", "o", "u", "r", "s">>
minutes == <<"m", "i", "n", "u", "t", "e", "s">>

\* str.substr(prev, cur - prev)
TimeStr(s, p, c) == Substr(s, p, c - p)

\* time_str.find(" ")
SpaceCh(time_str) == Find(time_str, <<" ">>, 0)

\* (mutant: the unit text starts one character late)
UnitStartBad(space_ch) == space_ch + 2

\* the start position of unit_str: space_ch + 1 in std::size_t
UnitStart(space_ch) == space_ch + 1

\* time_str.substr(0, space_ch)
NumStr(time_str) == Substr(time_str, 0, SpaceCh(time_str))

\* time_str.substr(space_ch + 1)
UnitStr(time_str) == Substr(time_str, UnitStart(SpaceCh(time_str)), NPOS)

\* one of the substr calls of the loop body throws
BodyThrows(s, p, c) ==
  \/ SubstrThrows(s, p)
  \/ SubstrThrows(TimeStr(s, p, c), UnitStart(SpaceCh(TimeStr(s, p, c))))

\* (mutant: a final else that counts an unknown unit as minutes)
AddUnitOutcomesLenient(t, n, unit_str) ==
  IF unit_str = days
    THEN UNION { UNION { Taint(AddOutcomes(t, m24.val), m24.ub)
                         : m24 \in Taint(MulOutcomes(m60.val, 24), m60.ub) }
                 : m60 \in MulOutcomes(n, 60) }
  ELSE IF unit_str = hours
    THEN UNION { Taint(AddOutcomes(t, m60.val), m60.ub) : m60 \in MulOutcomes(n, 60) }
  ELSE AddOutcomes(t, n)

\* the outcomes of the if / else if chain on unit_str, from total t and num_t n
AddUnitOutcomes(t, n, unit_str) ==
  IF unit_str = days
    THEN UNION { UNION { Taint(AddOutcomes(t, m24.val), m24.ub)
                         : m24 \in Taint(MulOutcomes(m60.val, 24), m60.ub) }
                 : m60 \in MulOutcomes(n, 60) }
  ELSE IF unit_str = hours
    THEN UNION { Taint(AddOutcomes(t, m60.val), m60.ub) : m60 \in MulOutcomes(n, 60) }
  ELSE IF unit_str = minutes
    THEN AddOutcomes(t, n)
  ELSE {[val |-> t, ub |-> FALSE]}

\* the outcomes of one loop body on total: [val, ub]
StepOutcomes(t, time_str) ==
  UNION { UNION { Taint(AddUnitOutcomes(t, n.val, unit_str), n.ub)
                  : n \in StrToIntOutcomes(num_str) }
          : num_str \in {NumStr(time_str)}, unit_str \in {UnitStr(time_str)} }

\* (mutant: prev is left on the delimiter found)
NextPrevStay(c) == c

\* (mutant: prev skips one character of the two-character delimiter)
NextPrevBad(c) == c + 1

\* prev = cur + 2
NextPrev(c) == c + 2

\* cur = str.find(delim, prev)
NextCur(s, p) == Find(s, delim, p)

\* (mutant: the empty-string test of lines 71-73 left out)
gm_EntryNoEmptyTest ==
  /\ fn = "get_minutes" /\ pc = "entry"
  /\ pc' = "loop"
  /\ total' = 0
  /\ cur' = Find(str, delim, 0)
  /\ prev' = 0
  /\ finds' = finds + 1
  /\ UNCHANGED <<fn, str, str2, num, ub, iters, result>>

\* lines 70-76: the empty-string return, or the locals' initialisation
gm_Entry ==
  /\ fn = "get_minutes" /\ pc = "entry"
  /\ IF str = <<>>
     THEN /\ pc' = "done"
          /\ result' = 0
          /\ UNCHANGED <<total, prev, cur, finds>>
     ELSE /\ pc' = "loop"
          /\ total' = 0
          /\ cur' = Find(str, delim, 0)
          /\ prev' = 0
          /\ finds' = finds + 1
          /\ UNCHANGED result
  /\ UNCHANGED <<fn, str, str2, num, ub, iters>>

\* lines 77-91: one pass through the loop body
gm_Iterate ==
  /\ fn = "get_minutes" /\ pc = "loop" /\ cur # NPOS
  /\ IF BodyThrows(str, prev, cur)
     THEN /\ pc' = "thrown"
          /\ UNCHANGED <<total, prev, cur, ub, iters, finds>>
     ELSE /\ \E o \in StepOutcomes(total, TimeStr(str, prev, cur)) :
               /\ total' = o.val
               /\ ub' = (ub \/ o.ub)
          /\ prev' = NextPrev(cur)
          /\ cur' = NextCur(str, NextPrev(cur))
          /\ iters' = iters + 1
          /\ finds' = finds + 1
          /\ pc' = "loop"
  /\ UNCHANGED <<fn, str, str2, num, result>>

\* lines 77, 92: the loop's exit and the return
gm_Return ==
  /\ fn = "get_minutes" /\ pc = "loop" /\ cur = NPOS
  /\ result' = total
  /\ pc' = "done"
  /\ UNCHANGED <<fn, str, str2, num, total, prev, cur, ub, iters, finds>>

\* the arguments get_minutes is called with
Components ==
  { <<"1", " ">> \o days,
    <<"2", " ">> \o hours,
    <<"3", "0", " ">> \o minutes,
    <<"1", " ", "h", "o", "u", "r">>,
    <<"2", " ", "D", "a", "y", "s">>,
    <<"3", " ", " ">> \o minutes,
    days,
    <<>>,
    <<"-", "4", " ">> \o minutes,
    <<"2", "1", "4", "7", "4", "8", "3", "6", "4", "7", " ">> \o hours,
    <<"9", "9", "9", "9", "9", "9", "9", "9", "9", "9", "9", " ", "d", "a", "y">> }

Separators == { delim, <<",">>, <<>> }

RECURSIVE SegStrings(_)
SegStrings(n) ==
  IF n = 0 THEN {<<>>}
  ELSE LET r == SegStrings(n - 1)
       IN  r \cup { s \o c \o d : s \in r, c \in Components, d \in Separators }

MinutesInputs == SegStrings(MaxSegs)

\* at the entry the locals hold nothing yet: gm_Entry sets each before it is read
InitMinutes ==
  /\ fn = "get_minutes" /\ pc = "entry"
  /\ str \in MinutesInputs
  /\ str2 = <<>> /\ num = 0
  /\ total = 0 /\ prev = 0 /\ cur = 0
  /\ result = 0 /\ ub = FALSE /\ iters = 0 /\ finds = 0

NextMinutes == gm_Entry \/ gm_Iterate \/ gm_Return

SpecMinutes == InitMinutes /\ [][NextMinutes]_vars

\* the call runs on: a sequential function is not suspended between statements
FairSpecMinutes == SpecMinutes /\ WF_vars(NextMinutes)

---------------------------------------------------------------------------
(* What the claims about get_minutes speak of, stated on the input string   *)
(* itself, character by character.                                          *)

\* the positions (0-based) at which ", " occurs in s
DelimAt(s) == { i \in 0..(Len(s) - 2) : s[i + 1] = "," /\ s[i + 2] = " " }

\* the characters of s at positions [from, to)
Slice(s, from, to) == [i \in 1..(to - from) |-> s[from + i]]

\* the component that the delimiter at position d ends starts after the
\* delimiter before it, or at 0
CompStart(s, d) ==
  LET before == { e \in DelimAt(s) : e < d }
  IN  IF before = {} THEN 0
      ELSE (CHOOSE e \in before : \A f \in before : f <= e) + 2

\* 1-based index of the first space of component c, 0 when it has none
FirstSpace(c) ==
  IF \E i \in 1..Len(c) : c[i] = " "
  THEN CHOOSE i \in 1..Len(c) : c[i] = " " /\ \A j \in 1..(i - 1) : c[j] # " "
  ELSE 0

\* its unit text: what follows the first space
UnitText(c) == Slice(c, FirstSpace(c), Len(c))

\* its number text: what precedes the first space
NumText(c) == Slice(c, 0, FirstSpace(c) - 1)

\* c is "<something> <unit>" with unit exactly days, hours or minutes
Counted(c) == FirstSpace(c) > 0 /\ UnitText(c) \in {days, hours, minutes}

MinutesPer(unit) == IF unit = days THEN 1440 ELSE IF unit = hours THEN 60 ELSE 1

\* the minutes a component stands for: 0 unless it is counted
CompMinutes(c) ==
  IF Counted(c) THEN Atoi(NumText(c)).val * MinutesPer(UnitText(c)) ELSE 0

RECURSIVE SumOver(_, _)
SumOver(s, D) ==
  IF D = {} THEN 0
  ELSE LET d == CHOOSE e \in D : TRUE
       IN  CompMinutes(Slice(s, CompStart(s, d), d)) + SumOver(s, D \ {d})

\* the sum over the components of s that a delimiter ends
TerminatedSum(s) == SumOver(s, DelimAt(s))

---------------------------------------------------------------------------
\* C2: get_minutes("") returns 0: the call goes from its entry straight to
\* the return, with no str.find call, no loop body and no error.
C2_EmptyReturnsZero ==
  (fn = "get_minutes" /\ str = <<>> /\ pc # "entry")
    => (pc = "done" /\ result = 0 /\ finds = 0 /\ iters = 0 /\ ~ub)

C2_Witness == fn = "get_minutes" /\ str = <<>> /\ pc = "done"

\* C7: a loop body whose component is not "<n> <unit>" with an exact unit
\* leaves total unchanged and goes on to the next delimiter; and the value
\* returned is the sum over all delimiter-terminated components, the ones
\* after a skipped component included.
C7_SkippedSilently ==
  /\ [][ (fn = "get_minutes" /\ pc = "loop" /\ cur # NPOS
           /\ ~Counted(Slice(str, prev, cur)))
         => (total' = total /\ pc' = "loop" /\ prev' = cur + 2
              /\ iters' = iters + 1) ]_vars
  /\ [](fn = "get_minutes" /\ pc = "done" /\ ~ub => result = TerminatedSum(str))

\* a skipped component, then a counted one, and a result that counts it
C7_Witness ==
  /\ fn = "get_minutes" /\ pc = "done" /\ ~ub
  /\ \E d \in DelimAt(str), e \in DelimAt(str) :
       /\ d < e
       /\ FirstSpace(Slice(str, CompStart(str, d), d)) > 0
       /\ ~Counted(Slice(str, CompStart(str, d), d))
       /\ Counted(Slice(str, CompStart(str, e), e))
       /\ result = CompMinutes(Slice(str, CompStart(str, e), e))
       /\ result # 0

\* C8: get_minutes terminates; each loop body has cur >= prev and sets prev to
\* cur + 2, so prev strictly increases; the loop body runs at most once per
\* occurrence of ", "; a call that entered the loop returns with cur = npos.
C8_Terminates ==
  /\ (fn = "get_minutes" /\ pc = "entry") ~> (pc = "done")
  /\ [][ (fn = "get_minutes" /\ pc = "loop" /\ cur # NPOS)
         => (SizeLE(prev, cur) /\ prev' = cur + 2 /\ SizeLT(prev, prev')) ]_vars
  /\ [](fn = "get_minutes" => iters <= Cardinality(DelimAt(str)))
  /\ [](fn = "get_minutes" /\ pc = "done" /\ str # <<>> => cur = NPOS)

\* the loop body ran twice and the loop was left
C8_Witness == fn = "get_minutes" /\ pc = "done" /\ iters >= 2 /\ cur = NPOS

\* C9: no substr call of get_minutes throws: before each loop body
\* prev <= cur <= length(str) - 2, and the unit text starts at a position
\* <= length(time_str), which is 0 when time_str has no space.
C9_SubstrInRange ==
  fn = "get_minutes" =>
    /\ pc # "thrown"
    /\ (pc = "loop" /\ cur # NPOS) =>
         /\ SizeLE(prev, cur)
         /\ SizeLE(cur, Len(str) - 2)
         /\ LET time_str == Slice(str, prev, cur)
                space_ch == IF FirstSpace(time_str) = 0 THEN NPOS
                            ELSE FirstSpace(time_str) - 1
            IN  /\ SizeLE(UnitStart(space_ch), Len(time_str))
                /\ space_ch = NPOS => UnitStart(space_ch) = 0

\* a loop body is about to run on a component with no space
C9_Witness ==
  /\ fn = "get_minutes" /\ pc = "loop" /\ cur # NPOS
  /\ prev < cur
  /\ FirstSpace(Slice(str, prev, cur)) = 0
  /\ iters >= 1

---------------------------------------------------------------------------
(* Duration strings: "<n> <unit>" components joined by ", ", and the sum   *)
(* of minutes each stands for.                                             *)

RECURSIVE ToDecimal(_)
\* the decimal digits of n >= 0
ToDecimal(n) ==
  IF n < 10 THEN <<Digits[n + 1]>>
  ELSE ToDecimal(n \div 10) \o <<Digits[(n % 10) + 1]>>

WfNumbers == {0, 1, 2, 30}
WfUnits == {days, hours, minutes}
WfComps == [n : WfNumbers, unit : WfUnits]

RenderComp(c) == ToDecimal(c.n) \o <<" ">> \o c.unit

RECURSIVE RenderAll(_)
RenderAll(cs) ==
  IF Len(cs) = 1 THEN RenderComp(cs[1])
  ELSE RenderAll(SubSeq(cs, 1, Len(cs) - 1)) \o delim \o RenderComp(cs[Len(cs)])

RECURSIVE SumAll(_)
SumAll(cs) ==
  IF cs = <<>> THEN 0
  ELSE SumAll(SubSeq(cs, 1, Len(cs) - 1)) + cs[Len(cs)].n * MinutesPer(cs[Len(cs)].unit)

\* <<duration string, its sum>> for every sequence of 1..MaxWfComps components
DurationTable ==
  { <<RenderAll(cs), SumAll(cs)>> :
      cs \in UNION { [1..k -> WfComps] : k \in 1..MaxWfComps } }

\* C1: for a duration string ("<n> <unit>" components joined by ", "),
\* get_minutes returns the sum over every component of n*1440 / n*60 / n.
C1_SumsEveryComponent ==
  (fn = "get_minutes" /\ pc = "done")
    => \A p \in DurationTable : p[1] = str => result = p[2]

---------------------------------------------------------------------------
(* get_minutes as a function of its argument: the same loop, unrolled.     *)

RECURSIVE ScanFrom(_, _, _, _, _)
\* the outcomes [val, ub] of the loop of lines 77-91 from prev = p, cur = c,
\* total = t, after operations whose ub flag was u
ScanFrom(s, p, c, t, u) ==
  IF c = NPOS THEN {[val |-> t, ub |-> u]}
  ELSE UNION { ScanFrom(s, np, nc, o.val, o.ub \/ u)
               : o  \in StepOutcomes(t, TimeStr(s, p, c)),
                 np \in {NextPrev(c)},
                 nc \in {NextCur(s, NextPrev(c))} }

\* the outcomes [val, ub] of get_minutes(s)
GetMinutesOutcomes(s) ==
  IF s = <<>> THEN {[val |-> 0, ub |-> FALSE]}
  ELSE ScanFrom(s, 0, Find(s, delim, 0), 0, FALSE)

\* get_minutes(str), get_minutes(str2) and get_minutes(str ++ str2), one after
\* the other; result is the three returned values
gm_Three ==
  /\ fn = "get_minutes x3" /\ pc = "entry"
  /\ \E oa \in GetMinutesOutcomes(str), ob \in GetMinutesOutcomes(str2),
        oab \in GetMinutesOutcomes(str \o str2) :
       /\ result' = <<oa.val, ob.val, oab.val>>
       /\ ub' = (oa.ub \/ ob.ub \/ oab.ub)
  /\ pc' = "done"
  /\ UNCHANGED <<fn, str, str2, num, total, prev, cur, iters, finds>>

\* the parts: fewer components, every kind of separator
PartComponents ==
  { <<"1", " ">> \o days,
    <<"3", "0", " ">> \o minutes,
    <<"1", " ", "h", "o", "u", "r">>,
    <<>>,
    <<"2", "1", "4", "7", "4", "8", "3", "6", "4", "7", " ">> \o hours }

RECURSIVE PartStrings(_)
PartStrings(n) ==
  IF n = 0 THEN {<<>>}
  ELSE LET r == PartStrings(n - 1)
       IN  r \cup { s \o c \o d : s \in r, c \in PartComponents, d \in Separators }

InitConcat ==
  /\ fn = "get_minutes x3" /\ pc = "entry"
  /\ str \in PartStrings(MaxPartSegs)
  /\ str2 \in PartStrings(MaxPartSegs)
  /\ num = 0 /\ total = 0 /\ prev = 0 /\ cur = 0
  /\ result = <<>> /\ ub = FALSE /\ iters = 0 /\ finds = 0

NextConcat == gm_Three

SpecConcat == InitConcat /\ [][NextConcat]_vars

\* s ends with ", "
EndsWithDelim(s) == Len(s) >= 2 /\ s[Len(s) - 1] = "," /\ s[Len(s)] = " "

\* C10: for a non-empty a that ends with ", " and any b,
\* get_minutes(a ++ b) = get_minutes(a) + get_minutes(b), when no int
\* operation of the three calls, nor the sum, overflows.
C10_Additive ==
  (fn = "get_minutes x3" /\ pc = "done" /\ EndsWithDelim(str) /\ ~ub
     /\ AddFits(result[1], result[2]))
    => result[3] = result[1] + result[2]

\* both parts count something, and the whole is their sum
C10_Witness ==
  /\ fn = "get_minutes x3" /\ pc = "done" /\ EndsWithDelim(str) /\ ~ub
  /\ result[1] > 0 /\ result[2] > 0
  /\ result[3] = result[1] + result[2]

---------------------------------------------------------------------------
(* is_contains *)

\* every string over alphabet A of at most n characters
Strings(A, n) == UNION { [1..k -> A] : k \in 0..n }

\* line 96
ic_Call ==
  /\ fn = "is_contains" /\ pc = "entry"
  /\ result' = (Find(str, str2, 0) # NPOS)
  /\ pc' = "done"
  /\ UNCHANGED <<fn, str, str2, num, total, prev, cur, ub, iters, finds>>

ContainsAlphabet == {"a", "b"}

InitContains ==
  /\ fn = "is_contains" /\ pc = "entry"
  /\ str \in Strings(ContainsAlphabet, MaxContainsLen)
  /\ str2 \in Strings(ContainsAlphabet, MaxContainsLen)
  /\ num = 0 /\ total = 0 /\ prev = 0 /\ cur = 0
  /\ result = FALSE /\ ub = FALSE /\ iters = 0 /\ finds = 0

NextContains == ic_Call

SpecContains == InitContains /\ [][NextContains]_vars

\* t occurs in s at position i (0-based), character by character
OccursAt(s, t, i) ==
  /\ i + Len(t) <= Len(s)
  /\ \A k \in 1..Len(t) : s[i + k] = t[k]

\* C3: is_contains(str1, str2) is true exactly when str2 occurs in str1 at
\* some position; so it is true when str2 is empty and false when str2 is
\* longer than str1.
C3_ContainsIffOccurs ==
  (fn = "is_contains" /\ pc = "done") =>
    /\ result = (\E i \in 0..Len(str) : OccursAt(str, str2, i))
    /\ (str2 = <<>> => result = TRUE)
    /\ (Len(str2) > Len(str) => result = FALSE)

\* a proper substring found at the very end of str1
C3_Witness ==
  /\ fn = "is_contains" /\ pc = "done" /\ result = TRUE
  /\ str2 # <<>> /\ Len(str2) < Len(str)
  /\ ~ \E i \in 0..(Len(str) - Len(str2) - 1) : OccursAt(str, str2, i)

---------------------------------------------------------------------------
(* str_to_int *)

\* lines 56-58
sti_Call ==
  /\ fn = "str_to_int" /\ pc = "entry"
  /\ \E o \in StrToIntOutcomes(str) :
       /\ result' = o.val
       /\ ub' = o.ub
  /\ pc' = "done"
  /\ UNCHANGED <<fn, str, str2, num, total, prev, cur, iters, finds>>

AtoiAlphabet == {" ", "\t", "-", "+", "0", "1", "9", "x", NUL}

\* numbers at the ends of the int range and beyond them
LongNumbers ==
  { <<"2", "1", "4", "7", "4", "8", "3", "6", "4", "7">>,
    <<"2", "1", "4", "7", "4", "8", "3", "6", "4", "8">>,
    <<"-", "2", "1", "4", "7", "4", "8", "3", "6", "4", "8">>,
    <<"-", "2", "1", "4", "7", "4", "8", "3", "6", "4", "9">>,
    <<" ", "+", "0", "0", "2", "1", "4", "7", "4", "8", "3", "6", "4", "7", "x">>,
    <<"9", "9", "9", "9", "9", "9", "9", "9", "9", "9", "9">> }

InitStrToInt ==
  /\ fn = "str_to_int" /\ pc = "entry"
  /\ str \in Strings(AtoiAlphabet, MaxAtoiLen) \cup LongNumbers
  /\ str2 = <<>> /\ num = 0 /\ total = 0 /\ prev = 0 /\ cur = 0
  /\ result = 0 /\ ub = FALSE /\ iters = 0 /\ finds = 0

NextStrToInt == sti_Call

SpecStrToInt == InitStrToInt /\ [][NextStrToInt]_vars

\* The shape "white space, optional sign, digit run, rest" of a string,
\* read off its characters.
WhiteChars == {" ", "\t"}
DigitChars == {"0", "1", "2", "3", "4", "5", "6", "7", "8", "9"}

\* the number of leading white-space characters
LeadWhite(s) ==
  CHOOSE w \in 0..Len(s) :
    /\ \A k \in 1..w : s[k] \in WhiteChars
    /\ (w < Len(s) => s[w + 1] \notin WhiteChars)

HasSign(s) == LeadWhite(s) < Len(s) /\ s[LeadWhite(s) + 1] \in {"+", "-"}
IsNegative(s) == HasSign(s) /\ s[LeadWhite(s) + 1] = "-"

\* the index before the first digit of the run
RunBase(s) == LeadWhite(s) + (IF HasSign(s) THEN 1 ELSE 0)

\* the length of the digit run
RunLen(s) ==
  CHOOSE n \in 0..(Len(s) - RunBase(s)) :
    /\ \A k \in 1..n : s[RunBase(s) + k] \in DigitChars
    /\ (RunBase(s) + n < Len(s) => s[RunBase(s) + n + 1] \notin DigitChars)

\* the run without its leading zeros
RunZeros(s) ==
  CHOOSE z \in 0..RunLen(s) :
    /\ \A k \in 1..z : s[RunBase(s) + k] = "0"
    /\ (z < RunLen(s) => s[RunBase(s) + z + 1] # "0")

Significant(s) == Slice(s, RunBase(s) + RunZeros(s), RunBase(s) + RunLen(s))

\* digit sequences of equal length: a <= b
DigitsLE(a, b) ==
  \/ a = b
  \/ \E k \in 1..Len(a) :
       /\ \A j \in 1..(k - 1) : a[j] = b[j]
       /\ DigitVal(a[k]) < DigitVal(b[k])

\* the signed value of the run is an int: by its digits against those of
\* INT_MAX, or of -INT_MIN
RunFits(s) ==
  LET sig == Significant(s)
      lim == IF IsNegative(s)
             THEN <<"2", "1", "4", "7", "4", "8", "3", "6", "4", "8">>
             ELSE <<"2", "1", "4", "7", "4", "8", "3", "6", "4", "7">>
  IN  Len(sig) < 10 \/ (Len(sig) = 10 /\ DigitsLE(sig, lim))

RECURSIVE Pow10(_)
Pow10(k) == IF k = 0 THEN 1 ELSE 10 * Pow10(k - 1)

RECURSIVE SignedSum(_, _, _)
\* sum of sgn * digit * 10^place over the digits sig[k..]
SignedSum(sig, k, sgn) ==
  IF k > Len(sig) THEN 0
  ELSE sgn * DigitVal(sig[k]) * Pow10(Len(sig) - k) + SignedSum(sig, k + 1, sgn)

\* the signed value of the run, when it fits
RunValue(s) == SignedSum(Significant(s), 1, IF IsNegative(s) THEN -1 ELSE 1)

\* C4: str_to_int always returns: the signed value of the leading digit run
\* (after optional white space and an optional sign) when that value is an
\* int, whatever follows the run; and 0 when there is no such run.
C4_DigitPrefixOrZero ==
  (fn = "str_to_int" /\ pc # "entry") =>
    /\ pc = "done"
    /\ (RunLen(str) > 0 /\ RunFits(str)) => (result = RunValue(str) /\ ~ub)
    /\ RunLen(str) = 0 => (result = 0 /\ ~ub)

\* a negative number after white space, followed by other characters
C4_Witness ==
  /\ fn = "str_to_int" /\ pc = "done"
  /\ LeadWhite(str) > 0 /\ IsNegative(str) /\ RunLen(str) > 0
  /\ RunBase(str) + RunLen(str) < Len(str)
  /\ result < 0

---------------------------------------------------------------------------
(* add_3 *)

\* (mutant: the constant mistyped)
Add3OutcomesOff(n) == AddOutcomes(n, 2)

\* the outcomes of the int expression num + 3 (line 24)
Add3Outcomes(n) == AddOutcomes(n, 3)

\* lines 23-25
add_3 ==
  /\ fn = "add_3" /\ pc = "entry"
  /\ \E o \in Add3Outcomes(num) :
       /\ result' = o.val
       /\ ub' = o.ub
  /\ pc' = "done"
  /\ UNCHANGED <<fn, str, str2, num, total, prev, cur, iters, finds>>

InitAdd3 ==
  /\ fn = "add_3" /\ pc = "entry"
  /\ num \in { IntMin + k : k \in 0..Add3Span } \cup ((-Add3Span)..Add3Span)
               \cup { IntMax - k : k \in 0..Add3Span }
  /\ str = <<>> /\ str2 = <<>> /\ total = 0 /\ prev = 0 /\ cur = 0
  /\ result = 0 /\ ub = FALSE /\ iters = 0 /\ finds = 0

NextAdd3 == add_3

SpecAdd3 == InitAdd3 /\ [][NextAdd3]_vars

\* C6 as stated: add_3(num) is the mathematical sum num + 3, an int, for
\* every int num.  For num > INT_MAX - 3 the sum exceeds every int, so no
\* returned value equals it.
C6_SumForEveryInt ==
  (fn = "add_3" /\ pc = "done")
    => (num <= IntMax - 3 /\ result = num + 3 /\ ~ub)

\* C6 amended: add_3(num) = num + 3, an int, for every int num <= INT_MAX - 3.
C6_SumBelowOverflow ==
  (fn = "add_3" /\ pc = "done" /\ num <= IntMax - 3)
    => (result = num + 3 /\ result <= IntMax /\ ~ub)

\* the largest argument whose sum is an int
C6_Witness ==
  fn = "add_3" /\ pc = "done" /\ num = IntMax - 3 /\ result = IntMax

===========================================================================
